---- MODULE Spec2Model ----
(***************************************************************************)
(* The /alert dispatch pipeline of jiralert (cmd/jiralert/main.go):        *)
(* decode -> route -> filter -> notify -> classify -> respond/instrument.  *)
(* One request is one process; its handler runs from the arrival of the    *)
(* body to the call of Notify (the only point where the handler blocks on  *)
(* the network after the body is read) and from Notify's return to the end.*)
(***************************************************************************)
EXTENDS Integers, Sequences, FiniteSets, TLC

\* ------------------------------------------------------------------ bounds
MaxRequests == 2        \* request tasks in the concurrent specification
MaxAlerts == 2          \* alerts in one webhook body

\* ------------------------------------------------------- program constants
unknownReceiver == "<unknown>"
StatusOK == 200
StatusBadRequest == 400
StatusNotFound == 404
StatusInternalServerError == 500
StatusServiceUnavailable == 503

NoErr == "<nil>"        \* Go's nil error

\* ------------------------------------------------------------------ inputs
Requests == 1..MaxRequests

\* Receivers of the loaded configuration (names are non-empty).
ConfiguredReceivers == {"team-a", "team-b"}
\* Receiver names a body may carry; "" is the zero value of an absent field.
ReceiverNames == ConfiguredReceivers \cup {"ghost-team"}

AlertStatuses == {"firing", "resolved", ""}
AlertNames == {"a1", "a2"}
Alert == [status : AlertStatuses, name : AlertNames]
AlertLists == UNION {[1..n -> Alert] : n \in 0..MaxAlerts}

NoLabels == {}
SomeLabels == {<<"alertname", "Down">>}

\* A request body.  kind:
\*   "empty"    no bytes at all
\*   "syntax"   bytes whose first JSON value is not well-formed
\*   "truncated" a body that ends inside its first JSON value, sent so or
\*              cut short by a client that went away
\*   "type"     a JSON object whose "receiver" is a number, next to the
\*              well-typed fields named in `fields`
\*   "null"     the JSON value null
\*   "object"   a JSON object holding the fields named in `fields`
\*   "trailing" such an object followed by bytes that are not JSON
\* A field that is absent has its zero value in the record.
PayloadKinds ==
    {"empty", "syntax", "truncated", "type", "null", "object", "trailing"}
FieldNames == {"receiver", "groupLabels", "alerts"}
IsObjectKind(kind) == kind \in {"object", "trailing", "type"}
Payloads ==
    { p \in [kind : PayloadKinds, fields : SUBSET FieldNames,
             receiver : ReceiverNames \cup {""},
             groupLabels : {NoLabels, SomeLabels}, alerts : AlertLists] :
        /\ ~IsObjectKind(p.kind) => p.fields = {}
        /\ ("receiver" \in p.fields) = (p.receiver # "")
        /\ p.kind = "type" => "receiver" \notin p.fields
        /\ ("groupLabels" \in p.fields) = (p.groupLabels # NoLabels)
        /\ "alerts" \notin p.fields => p.alerts = <<>> }

NoPayload == [kind |-> "none", fields |-> {}, receiver |-> "",
              groupLabels |-> NoLabels, alerts |-> <<>>]

\* ------------------------------------------------------------ pure helpers
\* alertmanager.Data{}: the zero value the handler decodes into.
ZeroData == [Receiver |-> "", GroupLabels |-> NoLabels, Alerts |-> <<>>]

\* Mutant of Decode: the decoder's type error is dropped.
Decode_IgnoreTypeError(p) ==
    IF p.kind \in {"empty", "syntax", "truncated"}
    THEN [err |-> "EOF", data |-> ZeroData]
    ELSE [err |-> NoErr,
          data |-> [Receiver |-> p.receiver, GroupLabels |-> p.groupLabels,
                    Alerts |-> p.alerts]]

\* json.NewDecoder(req.Body).Decode(&data): the first JSON value of the body
\* is decoded into data.  No bytes, an unfinished value and a malformed value are
\* errors that leave data untouched.  A field of the wrong type is an error
\* too, but the decoder skips that field and fills the others.  null leaves
\* data untouched; absent fields keep their zero value; bytes after the first
\* value are never read.
Decode(p) ==
    CASE p.kind = "empty" -> [err |-> "EOF", data |-> ZeroData]
      [] p.kind = "syntax" ->
            [err |-> "invalid character 'x' looking for beginning of value",
             data |-> ZeroData]
      [] p.kind = "truncated" -> [err |-> "unexpected EOF", data |-> ZeroData]
      [] p.kind = "type" ->
            [err |-> "json: cannot unmarshal number into Go struct field Data.receiver of type string",
             data |-> [Receiver |-> "", GroupLabels |-> p.groupLabels,
                       Alerts |-> p.alerts]]
      [] p.kind = "null" -> [err |-> NoErr, data |-> ZeroData]
      [] OTHER ->
            [err |-> NoErr,
             data |-> [Receiver |-> p.receiver, GroupLabels |-> p.groupLabels,
                       Alerts |-> p.alerts]]

\* config.ReceiverByName: exact match on the name, nil when there is none.
ReceiverByName(name) ==
    IF name \in ConfiguredReceivers
    THEN [found |-> TRUE, Name |-> name]
    ELSE [found |-> FALSE, Name |-> ""]

IsFiring(a) == a.status = "firing"

\* Alerts.Firing(): the alerts whose status is "firing", in order.
Firing(as) == SelectSeq(as, IsFiring)

\* len(alerts) < len(data.Alerts)
DroppedAlerts(d) == Len(Firing(d.Alerts)) < Len(d.Alerts)

\* Mutant of FilteredData: the firing alerts are computed but never stored.
FilteredData_Keep(d) == d

\* data after the filter block: data.Alerts is replaced only when
\* some alert was dropped.
FilteredData(d) ==
    IF DroppedAlerts(d) THEN [d EXCEPT !.Alerts = Firing(d.Alerts)] ELSE d

\* Mutant of ShouldNotify: >= for >.
ShouldNotify_Always(d) == Len(d.Alerts) >= 0

\* len(data.Alerts) > 0
ShouldNotify(d) == Len(d.Alerts) > 0

\* Mutant of NotifyFailureStatus: the retry flag is ignored.
NotifyFailureStatus_Always500(retry) == StatusInternalServerError

\* The status of a failed Notify.
NotifyFailureStatus(retry) ==
    IF retry THEN StatusServiceUnavailable ELSE StatusInternalServerError

Digit(d) ==
    CASE d = 0 -> "0" [] d = 1 -> "1" [] d = 2 -> "2" [] d = 3 -> "3"
      [] d = 4 -> "4" [] d = 5 -> "5" [] d = 6 -> "6" [] d = 7 -> "7"
      [] d = 8 -> "8" [] d = 9 -> "9"

\* strconv.FormatInt(int64(status), 10) for status >= 0.
RECURSIVE FormatInt(_)
FormatInt(n) ==
    IF n < 10 THEN Digit(n) ELSE FormatInt(n \div 10) \o Digit(n % 10)

\* http.StatusText for the codes the handler uses.
StatusText(status) ==
    CASE status = 200 -> "OK"
      [] status = 400 -> "Bad Request"
      [] status = 404 -> "Not Found"
      [] status = 500 -> "Internal Server Error"
      [] status = 503 -> "Service Unavailable"
      [] OTHER -> ""

\* fmt.Errorf("receiver missing: %s", data.Receiver).Error()
ReceiverMissing(name) == "receiver missing: " \o name

\* The struct errorHandler marshals: Error is the constant true.
Envelope(status, err) == [Error |-> TRUE, Status |-> status, Message |-> err]

\* Mutant of errorHandler: the counter is labelled with the status text.
errorHandler_TextLabel(status, err, receiver, d) ==
    << <<"WriteHeader", status>>,
       <<"Write", [Error |-> TRUE, Status |-> status, Message |-> err]>>,
       <<"log", [level |-> "error", msg |-> "error handling request",
                 statusCode |-> status, statusText |-> StatusText(status),
                 err |-> err, receiver |-> receiver,
                 groupLabels |-> d.GroupLabels]>>,
       <<"Inc", receiver, StatusText(status)>> >>

\* errorHandler: the effects, in order, of answering with an error.
errorHandler(status, err, receiver, d) ==
    << <<"WriteHeader", status>>,
       <<"Write", Envelope(status, err)>>,
       <<"log", [level |-> "error", msg |-> "error handling request",
                 statusCode |-> status, statusText |-> StatusText(status),
                 err |-> err, receiver |-> receiver,
                 groupLabels |-> d.GroupLabels]>>,
       <<"Inc", receiver, FormatInt(status)>> >>

\* Mutant of successEffects: the success path counts nothing.
successEffects_NoInc(name) == <<>>

\* requestTotal.WithLabelValues(conf.Name, "200").Inc() on the success path.
successEffects(name) == << <<"Inc", name, "200">> >>

\* Errors NewReceiver and Notify may return (nil included).
NewReceiverErrs == {NoErr, "bad receiver config"}
NotifyErrs == {NoErr, "jira unavailable"}

\* r.Notify(&data, logger): the arguments of the call.  The request's
\* context is not among them.
NotifyCall(d) == <<"Notify", d.Alerts, "no-context">>

IsEvent(e, kind) == e[1] = kind
IsWriteHeader(e) == IsEvent(e, "WriteHeader")
IsWrite(e) == IsEvent(e, "Write")
IsInc(e) == IsEvent(e, "Inc")
IsNewReceiver(e) == IsEvent(e, "NewReceiver")
IsNotify(e) == IsEvent(e, "Notify")
IsNotifyReturn(e) == IsEvent(e, "NotifyReturn")
IsLog(e) == IsEvent(e, "log")
IsLookup(e) == IsEvent(e, "ReceiverByName")
IsFilter(e) == IsEvent(e, "Firing")

DebugLog(msg) == <<"log", [level |-> "debug", msg |-> msg]>>
ReceiverLog(lvl, msg, name) ==
    <<"log", [level |-> lvl, msg |-> msg, receiver |-> name]>>

\* The handler's entry, up to the read of the body.
HandlerEntry == << DebugLog("handling /alert webhook request") >>

\* The handler from the decoding of the body to the call of Notify, or to its
\* return when it never calls Notify.  cerr is what notify.NewReceiver
\* returns if called.
HandleUntilNotify(p, cerr) ==
    LET dec == Decode(p)
        entry == <<>>
    IN  IF dec.err # NoErr
        THEN [next |-> "done", data |-> dec.data, conf |-> ReceiverByName(""),
              effects |-> entry \o errorHandler(StatusBadRequest, dec.err,
                                                unknownReceiver, dec.data)]
        ELSE
        LET c == ReceiverByName(dec.data.Receiver)
            routed == entry \o << <<"ReceiverByName", dec.data.Receiver>> >>
        IN
        IF ~c.found
        THEN [next |-> "done", data |-> dec.data, conf |-> c,
              effects |-> routed \o errorHandler(StatusNotFound,
                              ReceiverMissing(dec.data.Receiver),
                              unknownReceiver, dec.data)]
        ELSE
        LET matched == routed \o
                << ReceiverLog("debug", "  matched receiver", c.Name),
                   <<"Firing", dec.data.Alerts>> >>
            d == FilteredData(dec.data)
            filtered ==
                IF DroppedAlerts(dec.data)
                THEN matched \o << ReceiverLog("warn",
                        "receiver should have \"send_resolved: false\" set in Alertmanager config",
                        c.Name) >>
                ELSE matched
        IN  IF ~ShouldNotify(d)
            THEN [next |-> "done", data |-> d, conf |-> c,
                  effects |-> filtered \o successEffects(c.Name)]
            ELSE
            LET built == filtered \o << <<"NewReceiver", c.Name, cerr>> >> IN
            IF cerr # NoErr
            THEN [next |-> "done", data |-> d, conf |-> c,
                  effects |-> built \o errorHandler(StatusInternalServerError,
                                                    cerr, c.Name, d)]
            ELSE [next |-> "notifying", data |-> d, conf |-> c,
                  effects |-> built \o << NotifyCall(d) >>]

\* Mutant of HandleAfterNotify: a retryable failure is retried once.
HandleAfterNotify_Retry(c, d, retry, err) ==
    << <<"NotifyReturn", retry, err>> >> \o
    (IF err # NoErr
     THEN (IF retry
           THEN << <<"Notify", d.Alerts, "no-context">>,
                   <<"NotifyReturn", retry, err>> >>
           ELSE <<>>) \o
          errorHandler(NotifyFailureStatus(retry), err, c.Name, d)
     ELSE successEffects(c.Name))

\* The handler from Notify's return (retry, err) to its own return.
HandleAfterNotify(c, d, retry, err) ==
    << <<"NotifyReturn", retry, err>> >> \o
    (IF err # NoErr
     THEN errorHandler(NotifyFailureStatus(retry), err, c.Name, d)
     ELSE successEffects(c.Name))

\* Whether the handler reaches notify.NewReceiver on body p.
ReachesNewReceiver(p) ==
    /\ Decode(p).err = NoErr
    /\ ReceiverByName(Decode(p).data.Receiver).found
    /\ ShouldNotify(FilteredData(Decode(p).data))

\* ------------------------------------------------------------------- state
VARIABLES
    pc,            \* request -> "idle" | "reading" | "notifying" | "done"
    body,          \* request -> the body it was sent
    data,          \* request -> the handler's data
    conf,          \* request -> the handler's conf
    events,        \* request -> what the handler did, in order
    resp,          \* request -> the response writer: status (0: no header
                   \*            written yet) and the bodies written
    ctxDone,       \* request -> req.Context() is cancelled
    requestTotal   \* <<receiver, status>> -> the counter's value

vars == <<pc, body, data, conf, events, resp, ctxDone, requestTotal>>

\* Mutant of Inc: the value is stored, not added.
Inc_Overwrite(counters, key) ==
    IF key \in DOMAIN counters
    THEN [counters EXCEPT ![key] = 1]
    ELSE counters @@ (key :> 1)

\* Counter.Inc() on the child with these label values; the child is created
\* at 0 on first use.  The increment is atomic.
Inc(counters, key) ==
    IF key \in DOMAIN counters
    THEN [counters EXCEPT ![key] = @ + 1]
    ELSE counters @@ (key :> 1)

LabelsOf(e) == <<e[2], e[3]>>

\* The counters after the increments among the effects.
RECURSIVE IncAll(_, _)
IncAll(counters, effects) ==
    IF effects = <<>> THEN counters
    ELSE IncAll(IF IsInc(Head(effects))
                THEN Inc(counters, LabelsOf(Head(effects)))
                ELSE counters,
                Tail(effects))

\* The response writer after the effects: the first WriteHeader sets the
\* status, every Write appends to the body.
RECURSIVE Written(_, _)
Written(w, effects) ==
    IF effects = <<>> THEN w
    ELSE LET e == Head(effects) IN
         Written(IF IsWriteHeader(e) /\ w.status = 0
                 THEN [w EXCEPT !.status = e[2]]
                 ELSE IF IsWrite(e)
                      THEN [w EXCEPT !.body = Append(@, e[2])]
                      ELSE w,
                 Tail(effects))

\* The handler returns: a response whose header was never written goes out
\* with status 200.
Returned(w) == IF w.status = 0 THEN [w EXCEPT !.status = StatusOK] ELSE w

Init ==
    /\ pc = [r \in Requests |-> "idle"]
    /\ body = [r \in Requests |-> NoPayload]
    /\ data = [r \in Requests |-> ZeroData]
    /\ conf = [r \in Requests |-> ReceiverByName("")]
    /\ events = [r \in Requests |-> <<>>]
    /\ resp = [r \in Requests |-> [status |-> 0, body |-> <<>>]]
    /\ ctxDone = [r \in Requests |-> FALSE]
    /\ requestTotal = <<>>

\* A POST /alert arrives: the handler starts and waits for the body.
BeginRequest(r) ==
    /\ pc[r] = "idle"
    /\ pc' = [pc EXCEPT ![r] = "reading"]
    /\ events' = [events EXCEPT ![r] = @ \o HandlerEntry]
    /\ UNCHANGED <<body, data, conf, resp, ctxDone, requestTotal>>

\* The read of the body ends with p and the handler runs up to the call of
\* Notify, or to its end.
HandleAlert(r, p, cerr) ==
    /\ pc[r] = "reading"
    /\ LET out == HandleUntilNotify(p, cerr)
           w == Written(resp[r], out.effects)
       IN  /\ pc' = [pc EXCEPT ![r] = out.next]
           /\ body' = [body EXCEPT ![r] = p]
           /\ data' = [data EXCEPT ![r] = out.data]
           /\ conf' = [conf EXCEPT ![r] = out.conf]
           /\ events' = [events EXCEPT ![r] = @ \o out.effects]
           /\ resp' = [resp EXCEPT ![r] =
                          IF out.next = "done" THEN Returned(w) ELSE w]
           /\ ctxDone' = [ctxDone EXCEPT ![r] = @ \/ (out.next = "done")]
           /\ requestTotal' = IncAll(requestTotal, out.effects)

\* Notify returns (retry, err) and the handler runs to its end.
NotifyReturn(r, retry, err) ==
    /\ pc[r] = "notifying"
    /\ LET effects == HandleAfterNotify(conf[r], data[r], retry, err) IN
           /\ pc' = [pc EXCEPT ![r] = "done"]
           /\ events' = [events EXCEPT ![r] = @ \o effects]
           /\ resp' = [resp EXCEPT ![r] = Returned(Written(@, effects))]
           /\ ctxDone' = [ctxDone EXCEPT ![r] = TRUE]
           /\ requestTotal' = IncAll(requestTotal, effects)
           /\ UNCHANGED <<body, data, conf>>

\* The client goes away while the handler waits (for the body, or for
\* Notify): the request's context is cancelled.  The handler is not
\* watching it.
ClientDisconnect(r) ==
    /\ pc[r] \in {"reading", "notifying"}
    /\ ~ctxDone[r]
    /\ ctxDone' = [ctxDone EXCEPT ![r] = TRUE]
    /\ UNCHANGED <<pc, body, data, conf, events, resp, requestTotal>>

\* The bodies of the concurrent specification: one per way through the
\* handler and per receiver.
ConcPayloads ==
    { p \in Payloads :
        \/ p.kind \in {"empty", "truncated"}
        \/ /\ p.kind = "object"
           /\ p.fields = {"receiver", "alerts"}
           /\ Len(p.alerts) = 1
           /\ p.alerts[1].name = "a1"
           /\ p.alerts[1].status # "" }

Serve(R, P) ==
    \E r \in R :
        \/ BeginRequest(r)
        \/ \E p \in P :
             \E cerr \in (IF ReachesNewReceiver(p) THEN NewReceiverErrs ELSE {NoErr}) :
                HandleAlert(r, p, cerr)
        \/ \E retry \in BOOLEAN, err \in NotifyErrs : NotifyReturn(r, retry, err)
        \/ ClientDisconnect(r)

\* One request, any body.
Next == Serve({1}, Payloads)
Spec == Init /\ [][Next]_vars

\* MaxRequests requests in flight at once.
NextConc == Serve(Requests, ConcPayloads)
SpecConc == Init /\ [][NextConc]_vars

\* ------------------------------------------------------------- properties
Done(r) == pc[r] = "done"
Handled(r) == pc[r] \in {"notifying", "done"}
Events(r, Is(_)) == SelectSeq(events[r], Is)
Called(r, Is(_)) == Events(r, Is) # <<>>

\* The bodies the decoder accepts and those it rejects, by their form.
Rejected(p) == p.kind \in {"empty", "syntax", "truncated", "type"}
Accepted(p) == p.kind \in {"null", "object", "trailing"}

FiringAt(as) == {i \in DOMAIN as : as[i].status = "firing"}
\* The k-th firing alert of as.
KthFiring(as, k) ==
    as[CHOOSE i \in FiringAt(as) :
            Cardinality({j \in FiringAt(as) : j <= i}) = k]

StatusString(status) ==
    CASE status = 200 -> "200" [] status = 400 -> "400"
      [] status = 404 -> "404" [] status = 500 -> "500"
      [] status = 503 -> "503" [] OTHER -> "?"

CounterValue(key) ==
    IF key \in DOMAIN requestTotal THEN requestTotal[key] ELSE 0

\* C1: a request whose body decodes and names a configured receiver but
\* holds no firing alert (no alerts, or none of them firing) is answered 200
\* and neither notify.NewReceiver nor Notify is called for it.
C1_NoFiringNoNotify ==
    \A r \in Requests :
        ( /\ Handled(r)
          /\ Accepted(body[r])
          /\ body[r].receiver \in ConfiguredReceivers
          /\ FiringAt(body[r].alerts) = {} )
        => /\ Done(r)
           /\ ~Called(r, IsNewReceiver)
           /\ ~Called(r, IsNotify)
           /\ resp[r].status = 200

C1_Witness ==
    \E r \in Requests :
        /\ Done(r)
        /\ body[r].receiver = "team-a"
        /\ Len(body[r].alerts) = 2
        /\ \A i \in 1..2 : body[r].alerts[i].status = "resolved"
        /\ resp[r].status = 200

\* C2: a request whose body decodes but names no configured receiver is
\* answered 404 with Error true and the message "receiver missing: <name>",
\* the notifier is never called, and the diagnostic record and the counter
\* both name the receiver "<unknown>" with status 404.
C2_ReceiverMissing ==
    \A r \in Requests :
        ( /\ Handled(r)
          /\ Accepted(body[r])
          /\ body[r].receiver \notin ConfiguredReceivers )
        => /\ Done(r)
           /\ resp[r].status = 404
           /\ resp[r].body = << [Error |-> TRUE, Status |-> 404,
                                 Message |-> "receiver missing: " \o body[r].receiver] >>
           /\ ~Called(r, IsNewReceiver)
           /\ ~Called(r, IsNotify)
           /\ LET errs == SelectSeq(events[r],
                            LAMBDA e : IsLog(e) /\ e[2].level = "error")
              IN  /\ Len(errs) = 1
                  /\ errs[1][2].receiver = "<unknown>"
                  /\ errs[1][2].statusCode = 404
           /\ Events(r, IsInc) = << <<"Inc", "<unknown>", "404">> >>
           /\ CounterValue(<<"<unknown>", "404">>) >= 1

C2_Witness ==
    \E r \in Requests :
        /\ Done(r)
        /\ body[r].receiver = "ghost-team"
        /\ FiringAt(body[r].alerts) # {}
        /\ resp[r].status = 404

\* C3 (as claimed): every malformed body, one that is empty, syntactically
\* invalid or lacks a field of the schema (receiver, groupLabels, alerts),
\* is answered 400 with no receiver lookup, no filtering and no notifier call.
C3_AsClaimed ==
    \A r \in Requests :
        ( /\ Handled(r)
          /\ \/ Rejected(body[r])
             \/ body[r].kind = "object" /\ body[r].fields # FieldNames )
        => /\ Done(r)
           /\ resp[r].status = 400
           /\ ~Called(r, IsLookup)
           /\ ~Called(r, IsFilter)
           /\ ~Called(r, IsNewReceiver)
           /\ ~Called(r, IsNotify)

\* C3 (amended): every body the JSON decoder rejects (no bytes, a body that
\* ends inside its value, a first value that is not well-formed JSON, a field of the wrong
\* JSON type, whatever the other fields hold) is answered 400 with no receiver lookup, no filtering and no notifier call;
\* and 400 is the answer to no other body.
C3_RejectedIs400 ==
    \A r \in Requests :
        Handled(r) =>
            /\ Rejected(body[r]) =>
                  /\ Done(r)
                  /\ resp[r].status = 400
                  /\ ~Called(r, IsLookup)
                  /\ ~Called(r, IsFilter)
                  /\ ~Called(r, IsNewReceiver)
                  /\ ~Called(r, IsNotify)
            /\ resp[r].status = 400 => Rejected(body[r])

C3_Witness ==
    \E r \in Requests :
        /\ Done(r)
        /\ body[r].kind = "type"
        /\ body[r].groupLabels = SomeLabels
        /\ FiringAt(body[r].alerts) # {}
        /\ data[r].Alerts = body[r].alerts
        /\ \E i \in DOMAIN events[r] :
              /\ IsLog(events[r][i])
              /\ events[r][i][2].level = "error"
              /\ events[r][i][2].groupLabels = SomeLabels
        /\ resp[r].status = 400

\* What notify.NewReceiver and Notify returned to the handler.
ConstructFailed(r) ==
    \E i \in DOMAIN events[r] :
        IsNewReceiver(events[r][i]) /\ events[r][i][3] # NoErr
DeliveryFailed(r) ==
    \E i \in DOMAIN events[r] :
        IsNotifyReturn(events[r][i]) /\ events[r][i][3] # NoErr
RetryFlag(r) ==
    \E i \in DOMAIN events[r] :
        IsNotifyReturn(events[r][i]) /\ events[r][i][2]
\* C4: when notifier construction or delivery fails the status is 503
\* exactly when delivery failed with the retry flag set, and 500 otherwise;
\* the status is a function of the (retry, error) pair.
C4_Classification ==
    \A r \in Requests :
        /\ (ConstructFailed(r) \/ DeliveryFailed(r)) =>
              /\ Done(r)
              /\ resp[r].status =
                    IF DeliveryFailed(r) /\ RetryFlag(r) THEN 503 ELSE 500
        /\ resp[r].status \in {500, 503} =>
              (ConstructFailed(r) \/ DeliveryFailed(r))
        /\ \A q \in Requests :
              ( /\ Called(r, IsNotifyReturn) /\ Called(q, IsNotifyReturn)
                /\ Events(r, IsNotifyReturn) = Events(q, IsNotifyReturn) )
              => resp[r].status = resp[q].status

C4_Witness ==
    \E r \in Requests :
        /\ Done(r)
        /\ DeliveryFailed(r)
        /\ RetryFlag(r)
        /\ resp[r].status = 503

\* C5: every completed request, successful ones included, has
\* written the envelope; on success it is {false, 200, ""}; its status field
\* is the HTTP status and its error field is true exactly when that is not 200.
C5_AsClaimed ==
    \A r \in Requests :
        Done(r) =>
            /\ Len(resp[r].body) = 1
            /\ resp[r].body[1].Status = resp[r].status
            /\ resp[r].body[1].Error = (resp[r].status # 200)
            /\ resp[r].status = 200 => resp[r].body[1].Message = ""

\* C6: on every path a completed request has incremented the counter
\* exactly once, as the last thing the handler did (so after any header was
\* written), with the labels (receiver, status): status the decimal string
\* of the response code, receiver "<unknown>" when no receiver was matched
\* and the matched receiver's name otherwise.  A request still in flight has
\* incremented nothing.
C6_CountedOnce ==
    \A r \in Requests :
        LET incs == Events(r, IsInc) IN
        /\ ~Done(r) => incs = <<>>
        /\ Done(r) =>
              /\ Len(incs) = 1
              /\ events[r][Len(events[r])] = incs[1]
              /\ incs[1][3] = StatusString(resp[r].status)
              /\ incs[1][2] =
                    IF body[r].receiver \in ConfiguredReceivers /\ Accepted(body[r])
                    THEN body[r].receiver
                    ELSE "<unknown>"
              /\ CounterValue(<<incs[1][2], incs[1][3]>>) >= 1

C6_Witness ==
    \E r \in Requests :
        /\ Done(r)
        /\ body[r].receiver = "team-b"
        /\ FiringAt(body[r].alerts) = {}
        /\ Events(r, IsInc) = << <<"Inc", "team-b", "200">> >>
        /\ CounterValue(<<"team-b", "200">>) = 1

\* The label a completed request is counted under, from its body and its
\* response.
LabelOf(r) ==
    << IF body[r].receiver \in ConfiguredReceivers /\ Accepted(body[r])
       THEN body[r].receiver ELSE "<unknown>",
       StatusString(resp[r].status) >>
AllLabels ==
    (ConfiguredReceivers \cup {"<unknown>"}) \X {"200", "400", "404", "500", "503"}
C7_CountersExact ==
    /\ DOMAIN requestTotal \subseteq AllLabels
    /\ \A key \in AllLabels :
          CounterValue(key) =
              Cardinality({r \in Requests : Done(r) /\ LabelOf(r) = key})
C7_Monotone ==
    \A key \in AllLabels :
        /\ key \in DOMAIN requestTotal => key \in DOMAIN requestTotal'
        /\ key \in DOMAIN requestTotal' =>
              requestTotal'[key] >=
                  (IF key \in DOMAIN requestTotal THEN requestTotal[key] ELSE 0)

\* C7: under every interleaving of the requests no counter ever decreases,
\* and each counter equals the number of completed requests with its
\* (receiver, status): N completed requests of one receiver answered 200
\* have raised (receiver, "200") by exactly N and no other counter.
C7_NoLostIncrement == [](C7_CountersExact) /\ [][C7_Monotone]_vars

C7_Witness ==
    /\ \A r \in Requests :
          Done(r) /\ body[r].receiver = "team-a" /\ resp[r].status = 200
    /\ \E r \in Requests : Called(r, IsNotify)
    /\ \E r \in Requests : ~Called(r, IsNotify)
    /\ requestTotal = (<<"team-a", "200">> :> MaxRequests)

\* C8 (as claimed): while Notify runs, a cancellation of the request (the
\* client went away) reaches the notification attempt, which runs under the
\* request's context.
C8_CancellationReachesNotify ==
    \A r \in Requests :
        (pc[r] = "notifying" /\ ctxDone[r]) =>
            \E i \in DOMAIN events[r] :
                IsNotify(events[r][i]) /\ events[r][i][3] = "request-context"

\* C9: whenever Notify is called, the alerts it is given are exactly the
\* firing alerts of the body, in the body's order: all of them, and no
\* alert of another status.
C9_NotifyGetsFiring ==
    \A r \in Requests :
        \A i \in DOMAIN events[r] :
            IsNotify(events[r][i]) =>
                LET given == events[r][i][2]
                    sent == body[r].alerts
                IN  /\ Len(given) = Cardinality(FiringAt(sent))
                    /\ \A k \in DOMAIN given :
                          /\ given[k].status = "firing"
                          /\ given[k] = KthFiring(sent, k)

C9_Witness ==
    \E r \in Requests :
        /\ Called(r, IsNotify)
        /\ body[r].alerts = << [status |-> "resolved", name |-> "a1"],
                               [status |-> "firing", name |-> "a2"] >>
        /\ Events(r, IsNotify)[1][2] = << [status |-> "firing", name |-> "a2"] >>

\* C10: within one request Notify is called at most once, and only after
\* the body decoded, the receiver was found and NewReceiver returned no
\* error; nothing is called again once Notify has returned; a retryable
\* failure ends the request with 503.
C10_AtMostOnce ==
    \A r \in Requests :
        LET es == events[r] IN
        /\ Len(Events(r, IsNotify)) <= 1
        /\ Len(Events(r, IsNewReceiver)) <= 1
        /\ \A i \in DOMAIN es :
              IsNotify(es[i]) =>
                  /\ Accepted(body[r])
                  /\ body[r].receiver \in ConfiguredReceivers
                  /\ \E j \in 1..(i - 1) : es[j] = <<"ReceiverByName", body[r].receiver>>
                  /\ \E j \in 1..(i - 1) :
                        es[j] = <<"NewReceiver", body[r].receiver, NoErr>>
        /\ \A i \in DOMAIN es :
              IsNotifyReturn(es[i]) =>
                  /\ \A j \in (i + 1)..Len(es) :
                        ~IsNotify(es[j]) /\ ~IsNewReceiver(es[j])
                  /\ Done(r)
                  /\ (es[i][2] /\ es[i][3] # NoErr) => resp[r].status = 503

C10_Witness ==
    \E r \in Requests :
        /\ Done(r)
        /\ Len(Events(r, IsNotify)) = 1
        /\ <<"NotifyReturn", TRUE, "jira unavailable">> \in
              {events[r][i] : i \in DOMAIN events[r]}
        /\ resp[r].status = 503

====
